---- MODULE Spec2Model ----
(***************************************************************************)
(* Pedigree grapher (src/pedigree.py): parse_ped_file, get_mates,          *)
(* filter_family and generate_graph.                                       *)
(*                                                                         *)
(* Python strings are sequences of one-character strings, so that split    *)
(* and strip are computed character by character.  A dict is a function    *)
(* from its keys to its values.                                            *)
(*                                                                         *)
(* Two specifications:                                                     *)
(*   SpecParse  parse_ped_file run line by line on a bounded file text     *)
(*   Spec       filter_family / generate_graph on a bounded record store   *)
(***************************************************************************)
EXTENDS Integers, Sequences, FiniteSets, Bags, TLC

VARIABLES
    file_contents,           \* decoded text of the upload            (l.24)
    lines,                   \* file_contents.split("\n")             (l.29)
    idx,                     \* position of the for loop in lines     (l.29)
    seen_lines,              \* trimmed lines seen so far             (l.27)
    relationships,           \* the record store                      (l.23, l.287)
    FOCUS_ID,                \* focal id handed to filter and render  (l.316)
    filter_year,             \* year filter, or None                  (l.348)
    filtered_relationships,  \* store handed to generate_graph        (l.351)
    dot,                     \* the Digraph built by generate_graph   (l.151)
    png_bytes,               \* what generate_graph returned          (l.358)
    st_errors,               \* messages passed to st.error           (l.261)
    pipe_log,                \* outcome of each dot.pipe invocation   (l.259)
    pc                       \* position of the program

vars == <<file_contents, lines, idx, seen_lines, relationships, FOCUS_ID,
          filter_year, filtered_relationships, dot, png_bytes, st_errors,
          pipe_log, pc>>

parseVars == <<file_contents, lines, idx, seen_lines>>
renderVars == <<dot, png_bytes, st_errors, pipe_log>>

----------------------------------------------------------------------------
(* Bounds *)

MaxLines == 3
NumYears == 1

----------------------------------------------------------------------------
(* Python values *)

None == <<"None">>
EMPTY == <<>>
ZERO == <<"0">>
NA == <<"N", "/", "A">>
NoDict == <<>>
NoDot == [created |-> FALSE, nodes |-> <<>>, edges |-> <<>>, subgraphs |-> <<>>]
Whitespace == {" ", "\t", "\n", "\r", "\f"}

Truthy(v) == v # None /\ v # EMPTY

RECURSIVE SplitAcc(_, _, _, _, _)
SplitAcc(s, sep, i, cur, acc) ==
    IF i > Len(s) THEN Append(acc, cur)
    ELSE IF s[i] = sep THEN SplitAcc(s, sep, i + 1, <<>>, Append(acc, cur))
    ELSE SplitAcc(s, sep, i + 1, Append(cur, s[i]), acc)

split(s, sep) == SplitAcc(s, sep, 1, <<>>, <<>>)

strip(s) ==
    LET keep == {i \in 1..Len(s) : s[i] \notin Whitespace}
    IN  IF keep = {} THEN <<>>
        ELSE SubSeq(s, CHOOSE i \in keep : \A j \in keep : i <= j,
                       CHOOSE i \in keep : \A j \in keep : i >= j)

Put(d, k, v) == [x \in (DOMAIN d) \cup {k} |-> IF x = k THEN v ELSE d[x]]

----------------------------------------------------------------------------
(* parse_ped_file *)

normalize(parts) ==
    [father_id    |-> parts[2],
     mother_id    |-> parts[3],
     sex          |-> parts[4],
     usgs_band_id |-> IF parts[5] # ZERO THEN parts[5] ELSE NA,
     hatch_year   |-> IF parts[6] # EMPTY THEN parts[6] ELSE NA,
     aux_id       |-> IF parts[7] # ZERO THEN parts[7] ELSE NA]

store_record_first_wins(rel, parts) ==
    IF parts[1] \in DOMAIN rel THEN rel ELSE Put(rel, parts[1], normalize(parts))

store_record(rel, parts) == Put(rel, parts[1], normalize(parts))

CurLine == strip(lines[idx])
CurParts == split(CurLine, ",")

InLoop == pc = "parsing" /\ idx <= Len(lines)

NextLine ==
    /\ idx' = idx + 1
    /\ UNCHANGED <<file_contents, lines, FOCUS_ID, filter_year,
                   filtered_relationships, renderVars>>

StartParse ==
    /\ pc = "uploaded"
    /\ lines' = split(file_contents, "\n")
    /\ idx' = 1
    /\ seen_lines' = {}
    /\ relationships' = NoDict
    /\ pc' = "parsing"
    /\ UNCHANGED <<file_contents, FOCUS_ID, filter_year,
                   filtered_relationships, renderVars>>

SkipEmptyLine ==
    /\ InLoop
    /\ CurLine = EMPTY
    /\ NextLine
    /\ UNCHANGED <<seen_lines, relationships, pc>>

SkipDuplicateLine ==
    /\ InLoop
    /\ CurLine # EMPTY
    /\ CurLine \in seen_lines
    /\ NextLine
    /\ UNCHANGED <<seen_lines, relationships, pc>>

SkipShortLine ==
    /\ InLoop
    /\ CurLine # EMPTY
    /\ CurLine \notin seen_lines
    /\ Len(CurParts) < 7
    /\ seen_lines' = seen_lines \cup {CurLine}
    /\ NextLine
    /\ UNCHANGED <<relationships, pc>>

UnpackError ==
    /\ InLoop
    /\ CurLine # EMPTY
    /\ CurLine \notin seen_lines
    /\ Len(CurParts) >= 7
    /\ Len(CurParts) # 7
    /\ seen_lines' = seen_lines \cup {CurLine}
    /\ pc' = "raised"
    /\ UNCHANGED <<file_contents, lines, idx, relationships, FOCUS_ID,
                   filter_year, filtered_relationships, renderVars>>

StoreLine ==
    /\ InLoop
    /\ CurLine # EMPTY
    /\ CurLine \notin seen_lines
    /\ Len(CurParts) = 7
    /\ seen_lines' = seen_lines \cup {CurLine}
    /\ relationships' = store_record(relationships, CurParts)
    /\ NextLine
    /\ UNCHANGED pc

ReturnStore ==
    /\ pc = "parsing"
    /\ idx > Len(lines)
    /\ pc' = "returned"
    /\ UNCHANGED <<parseVars, relationships, FOCUS_ID, filter_year,
                   filtered_relationships, renderVars>>

----------------------------------------------------------------------------
(* Bounded file texts *)

Row(fields) ==
    LET RECURSIVE Join(_)
        Join(k) == IF k = 0 THEN <<>>
                   ELSE IF k = 1 THEN fields[1]
                   ELSE Join(k - 1) \o <<",">> \o fields[k]
    IN  Join(Len(fields))

RowA1 == Row(<<<<"A">>, ZERO, ZERO, <<"1">>, ZERO, EMPTY, ZERO>>)
RowA2 == Row(<<<<"A">>, ZERO, ZERO, <<"2">>, <<"7">>, <<"9">>, <<"x">>>>)
RowB1 == Row(<<<<"B">>, <<"A">>, ZERO, <<"1">>, ZERO, <<"0">>, ZERO>>)
RowB2 == Row(<<<<"B">>, ZERO, <<"A">>, <<"2">>, ZERO, EMPTY, <<"x">>>>)

LinePool ==
    { RowA1, RowA2, RowB1, RowB2,
      <<" ">> \o RowA1 \o <<"\r">>,
      Row(<<<<"A">>, ZERO, ZERO, <<"1">>, ZERO, EMPTY>>),
      RowA1 \o <<",">> \o <<"z">>,
      <<>>,
      <<" ">> }

JoinLines(ls) ==
    LET RECURSIVE Join(_)
        Join(k) == IF k = 0 THEN <<>>
                   ELSE IF k = 1 THEN ls[1]
                   ELSE Join(k - 1) \o <<"\n">> \o ls[k]
    IN  Join(Len(ls))

Files == {JoinLines(ls) : ls \in UNION {[1..n -> LinePool] : n \in 0..MaxLines}}

InitParse ==
    /\ file_contents \in Files
    /\ lines = <<>>
    /\ idx = 0
    /\ seen_lines = {}
    /\ relationships = NoDict
    /\ FOCUS_ID = None
    /\ filter_year = None
    /\ filtered_relationships = NoDict
    /\ dot = NoDot
    /\ png_bytes = None
    /\ st_errors = <<>>
    /\ pipe_log = <<>>
    /\ pc = "uploaded"

NextParse ==
    \/ StartParse
    \/ SkipEmptyLine
    \/ SkipDuplicateLine
    \/ SkipShortLine
    \/ UnpackError
    \/ StoreLine
    \/ ReturnStore

SpecParse == InitParse /\ [][NextParse]_vars

----------------------------------------------------------------------------
(* Properties of parse_ped_file, checked under SpecParse *)

Trimmed(j) == strip(lines[j])
Fields(j) == split(Trimmed(j), ",")
Processed == IF idx = 0 THEN {} ELSE {j \in 1..Len(lines) : j < idx}
FirstOccurrence(j) == \A i \in 1..(j - 1) : Trimmed(i) # Trimmed(j)
Last(S) == CHOOSE j \in S : \A i \in S : i <= j

\* The rows of the input read so far that have exactly 7 fields and carry id.
RowsOf(id) == {j \in Processed : Len(Fields(j)) = 7 /\ Fields(j)[1] = id}

\* Those among them that do not repeat the text of an earlier line.
DistinctRowsOf(id) == {j \in RowsOf(id) : FirstOccurrence(j)}

\* C1 (as claimed): parse_ped_file never raises, whatever the input text.
C1_ParseNeverRaises == pc # "raised"

\* C2 (as claimed): in the returned store every id maps to the normalized
\* fields of the last 7-field row of the input that carries the id.
C2_LastRowWins ==
    pc = "returned" =>
        \A id \in DOMAIN relationships :
            /\ RowsOf(id) # {}
            /\ relationships[id] = normalize(Fields(Last(RowsOf(id))))

\* C2 (amended): at every point of the parse, and so in the store that is
\* returned, the ids of the store are the ids carried by the 7-field rows read
\* so far, and every id maps to the normalized fields of the last 7-field row
\* carrying it among the rows that do not repeat the trimmed text of an earlier
\* line (a repeated line is dropped and overwrites nothing).
C2_LastDistinctRowWins ==
    pc \in {"parsing", "returned", "raised"} =>
        /\ \A id \in DOMAIN relationships :
            /\ DistinctRowsOf(id) # {}
            /\ relationships[id] = normalize(Fields(Last(DistinctRowsOf(id))))
        /\ \A j \in Processed :
            Len(Fields(j)) = 7 => Fields(j)[1] \in DOMAIN relationships

\* C2 witness: a store was returned in which an id was overwritten by a later
\* different row, and a still later repetition of the first row was dropped.
C2_Witness ==
    /\ pc = "returned"
    /\ \E id \in DOMAIN relationships :
        \E i \in DistinctRowsOf(id), j \in DistinctRowsOf(id), k \in RowsOf(id) :
            /\ i < j /\ j < k
            /\ Trimmed(k) = Trimmed(i)
            /\ normalize(Fields(i)) # normalize(Fields(j))
            /\ relationships[id] = normalize(Fields(j))

----------------------------------------------------------------------------
(* get_mates, filter_family *)

PutAll(d, S, rel) ==
    [x \in (DOMAIN d) \cup S |-> IF x \in S THEN rel[x] ELSE d[x]]

get_mates_father_only(rel, individual_id) ==
    IF individual_id \notin DOMAIN rel THEN {}
    ELSE {rel[iid].mother_id : iid \in
             {i \in DOMAIN rel : /\ rel[i].father_id = individual_id
                                 /\ rel[i].mother_id \in DOMAIN rel
                                 /\ rel[i].mother_id # ZERO}}

get_mates(rel, individual_id) ==
    IF individual_id \notin DOMAIN rel THEN {}
    ELSE {rel[iid].mother_id : iid \in
             {i \in DOMAIN rel : /\ rel[i].father_id = individual_id
                                 /\ rel[i].mother_id \in DOMAIN rel
                                 /\ rel[i].mother_id # ZERO}}
         \cup
         {rel[iid].father_id : iid \in
             {i \in DOMAIN rel : /\ rel[i].mother_id = individual_id
                                 /\ rel[i].father_id \in DOMAIN rel
                                 /\ rel[i].father_id # ZERO}}

add_parents_wrong_record(family, rel, individual_id) ==
    LET father_id == rel[individual_id].father_id
        mother_id == rel[individual_id].mother_id
        f1 == IF father_id \in DOMAIN rel /\ father_id # ZERO
              THEN Put(family, father_id, rel[individual_id]) ELSE family
    IN  IF mother_id \in DOMAIN rel /\ mother_id # ZERO
        THEN Put(f1, mother_id, rel[individual_id]) ELSE f1

add_parents(family, rel, individual_id) ==
    LET father_id == rel[individual_id].father_id
        mother_id == rel[individual_id].mother_id
        f1 == IF father_id \in DOMAIN rel /\ father_id # ZERO
              THEN Put(family, father_id, rel[father_id]) ELSE family
    IN  IF mother_id \in DOMAIN rel /\ mother_id # ZERO
        THEN Put(f1, mother_id, rel[mother_id]) ELSE f1

belongs_to_individual_only(info, individual_id, mates) ==
    \/ info.father_id = individual_id
    \/ info.mother_id = individual_id

belongs_to(info, individual_id, mates) ==
    \/ info.father_id = individual_id
    \/ info.mother_id = individual_id
    \/ info.father_id \in mates
    \/ info.mother_id \in mates

year_matches_always(info, year) == TRUE

year_matches(info, year) == year = None \/ info.hatch_year = year

filter_family(rel, individual_id, year) ==
    IF ~Truthy(individual_id) \/ individual_id \notin DOMAIN rel THEN rel
    ELSE
        LET f0 == Put(NoDict, individual_id, rel[individual_id])
            f1 == add_parents(f0, rel, individual_id)
            mates == get_mates(rel, individual_id)
            f2 == PutAll(f1, mates, rel)
            children == {iid \in DOMAIN rel :
                            /\ belongs_to(rel[iid], individual_id, mates)
                            /\ year_matches(rel[iid], year)}
        IN  PutAll(f2, children, rel)

----------------------------------------------------------------------------
(* generate_graph *)

PNG == <<"png">>

node_attrs(rel, iid) ==
    LET info == rel[iid]
    IN  [label |->
            <<<<"Individual: ", iid>>>>
            \o (IF info.hatch_year # EMPTY /\ info.hatch_year # NA
                THEN <<<<"Hatch Year: ", info.hatch_year>>>> ELSE <<>>)
            \o (IF info.usgs_band_id # EMPTY
                THEN <<<<"Primary ID: ", info.usgs_band_id>>>> ELSE <<>>)
            \o (IF info.aux_id # EMPTY
                THEN <<<<"Aux ID: ", info.aux_id>>>> ELSE <<>>),
         shape |-> IF info.sex = <<"1">> THEN "box"
                   ELSE IF info.sex = <<"2">> THEN "ellipse" ELSE "egg",
         fillcolor |-> IF info.sex = <<"1">> THEN "lightblue"
                       ELSE IF info.sex = <<"2">> THEN "lightpink" ELSE "gray"]

edge_color(rel, parent_id) ==
    IF parent_id \notin DOMAIN rel THEN "gray"
    ELSE IF rel[parent_id].sex = <<"1">> THEN "blue"
    ELSE IF rel[parent_id].sex = <<"2">> THEN "red"
    ELSE "gray"

\* dot.edge(tail, head, color=edge_color(tail)), as a bag of one edge
edge(rel, tail, head) ==
    SetToBag({[tail |-> tail, head |-> head, color |-> edge_color(rel, tail)]})

\* create_node on every id of S: draws the ids of the store not yet drawn
create_nodes(rel, drawn, S) == drawn \cup (S \cap DOMAIN rel)

valid_parent(rel, id) == id \in DOMAIN rel /\ id # ZERO

RECURSIVE BagSum(_, _)
BagSum(S, bags) ==
    IF S = {} THEN EmptyBag
    ELSE LET x == CHOOSE y \in S : TRUE
         IN  bags[x] (+) BagSum(S \ {x}, bags)

focused_dot(rel, focus) ==
    LET father_id == rel[focus].father_id
        mother_id == rel[focus].mother_id
        mates == get_mates(rel, focus)
        both == valid_parent(rel, father_id) /\ valid_parent(rel, mother_id)
        parents == {p \in {father_id, mother_id} : valid_parent(rel, p)}
        drawn1 == create_nodes(rel, {}, parents)
        edges1 == (IF valid_parent(rel, father_id)
                   THEN edge(rel, father_id, focus) ELSE EmptyBag)
                  (+)
                  (IF valid_parent(rel, mother_id)
                   THEN edge(rel, mother_id, focus) ELSE EmptyBag)
        parents_sub == IF both
                       THEN <<[rank |-> "same", calls |-> {father_id, mother_id}]>>
                       ELSE <<>>
        drawn2 == create_nodes(rel, drawn1, {focus} \cup mates)
        main_sub == <<[rank |-> "same", calls |-> {focus} \cup mates]>>
        children == {cid \in DOMAIN rel :
                        \/ rel[cid].father_id = focus
                        \/ rel[cid].father_id \in mates
                        \/ rel[cid].mother_id = focus
                        \/ rel[cid].mother_id \in mates}
        drawn3 == create_nodes(rel, drawn2, children)
        child_edges ==
            [cid \in children |->
                (IF rel[cid].father_id = focus \/ rel[cid].father_id \in mates
                 THEN edge(rel, rel[cid].father_id, cid) ELSE EmptyBag)
                (+)
                (IF rel[cid].mother_id = focus \/ rel[cid].mother_id \in mates
                 THEN edge(rel, rel[cid].mother_id, cid) ELSE EmptyBag)]
    IN  [created |-> TRUE,
         nodes |-> [iid \in drawn3 |-> node_attrs(rel, iid)],
         edges |-> edges1 (+) BagSum(children, child_edges),
         subgraphs |-> parents_sub \o main_sub]

unfocused_dot(rel) ==
    LET drawn == create_nodes(rel, {}, DOMAIN rel)
        record_edges ==
            [iid \in DOMAIN rel |->
                (IF valid_parent(rel, rel[iid].father_id)
                 THEN edge(rel, rel[iid].father_id, iid) ELSE EmptyBag)
                (+)
                (IF valid_parent(rel, rel[iid].mother_id)
                 THEN edge(rel, rel[iid].mother_id, iid) ELSE EmptyBag)]
    IN  [created |-> TRUE,
         nodes |-> [iid \in drawn |-> node_attrs(rel, iid)],
         edges |-> BagSum(DOMAIN rel, record_edges),
         subgraphs |-> <<>>]

build_dot(rel, focus) ==
    IF Truthy(focus) /\ focus \in DOMAIN rel
    THEN focused_dot(rel, focus)
    ELSE unfocused_dot(rel)

pipe_png_uncaught(engine_ok) ==
    IF engine_ok
    THEN [returned |-> PNG, errors |-> <<>>, raised |-> FALSE]
    ELSE [returned |-> None, errors |-> <<>>, raised |-> TRUE]

pipe_png(engine_ok) ==
    IF engine_ok
    THEN [returned |-> PNG, errors |-> <<>>, raised |-> FALSE]
    ELSE [returned |-> None, errors |-> <<"Error generating PNG">>,
          raised |-> FALSE]

generate_graph(rel, focus, engine_ok) ==
    IF DOMAIN rel = {}
    THEN [returned |-> None, dot |-> NoDot, errors |-> <<>>, pipe |-> <<>>,
          raised |-> FALSE]
    ELSE LET piped == pipe_png(engine_ok)
         IN  [returned |-> piped.returned,
              dot |-> build_dot(rel, focus),
              errors |-> piped.errors,
              pipe |-> <<IF engine_ok THEN "ok" ELSE "failed">>,
              raised |-> piped.raised]

----------------------------------------------------------------------------
(* The pipeline of the app on a parsed store (l.350-358), and the two        *)
(* functions called on arguments of their own                                *)

Render(rel, focus, engine_ok) ==
    LET g == generate_graph(rel, focus, engine_ok)
    IN  /\ dot' = g.dot
        /\ png_bytes' = g.returned
        /\ st_errors' = st_errors \o g.errors
        /\ pipe_log' = pipe_log \o g.pipe
        /\ pc' = IF g.raised THEN "render_raised" ELSE "rendered"

Digits == <<"1", "2", "3", "4", "5", "6", "7", "8", "9">>
HatchYears == {NA} \cup {<<Digits[k]>> : k \in 1..NumYears}
IdPool == {ZERO, <<"A">>, <<"B">>}
FocusArgs == {None, ZERO, <<"A">>}
YearArgs == {None} \cup HatchYears

SexOf(id) == IF id \in {<<"A">>, <<"P">>, <<"C">>} THEN <<"1">>
             ELSE IF id \in {<<"B">>, <<"D">>} THEN <<"2">> ELSE <<"U">>

\* the record parse_ped_file stores for the row  id,father,mother,sex,0,year,0
Record(id, father, mother, year) ==
    [father_id    |-> father,
     mother_id    |-> mother,
     sex          |-> SexOf(id),
     usgs_band_id |-> NA,
     hatch_year   |-> year,
     aux_id       |-> NA]

Links == [father_id : IdPool, mother_id : IdPool, hatch_year : HatchYears]

\* every store over the ids of IdPool
SmallStores ==
    UNION {
        {[iid \in S |-> Record(iid, c[iid].father_id, c[iid].mother_id,
                               c[iid].hatch_year)] : c \in [S -> Links]}
        : S \in SUBSET IdPool}

\* a pedigree of six records: A with father P, A's mate B, their child C,
\* B's child D by a father that has no record, and the unrelated U
PedigreeIds == {<<"P">>, <<"A">>, <<"B">>, <<"C">>, <<"D">>, <<"U">>}
BaseFather ==
    [iid \in PedigreeIds |->
        IF iid = <<"A">> THEN <<"P">>
        ELSE IF iid = <<"C">> THEN <<"A">>
        ELSE IF iid = <<"D">> THEN <<"X">> ELSE ZERO]
BaseMother ==
    [iid \in PedigreeIds |-> IF iid \in {<<"C">>, <<"D">>} THEN <<"B">> ELSE ZERO]

\* the pedigree with any hatch years for A, C and D, as it is and with one
\* parent field of one record set to any id
PedigreeStores ==
    {[iid \in PedigreeIds |->
         Record(iid,
                IF iid = r /\ f = "father_id" THEN v ELSE BaseFather[iid],
                IF iid = r /\ f = "mother_id" THEN v ELSE BaseMother[iid],
                IF iid \in DOMAIN y THEN y[iid] ELSE NA)] :
        r \in PedigreeIds, f \in {"father_id", "mother_id"},
        v \in PedigreeIds \cup {ZERO, <<"X">>},
        y \in [{<<"A">>, <<"C">>, <<"D">>} -> HatchYears]}

Stores == SmallStores \cup PedigreeStores

FilterFamily ==
    /\ pc = "parsed"
    /\ \E focus \in FocusArgs, year \in YearArgs :
        /\ FOCUS_ID' = focus
        /\ filter_year' = year
        /\ filtered_relationships' =
              IF Truthy(focus) THEN filter_family(relationships, focus, year)
              ELSE relationships
    /\ pc' = "filtered"
    /\ UNCHANGED <<parseVars, relationships, renderVars>>

GenerateGraph ==
    /\ pc = "filtered"
    /\ \E engine_ok \in BOOLEAN :
        Render(filtered_relationships, FOCUS_ID, engine_ok)
    /\ UNCHANGED <<parseVars, relationships, FOCUS_ID, filter_year,
                   filtered_relationships>>

GenerateGraphUnfiltered ==
    /\ pc = "parsed"
    /\ \E focus \in FocusArgs, engine_ok \in BOOLEAN :
        /\ FOCUS_ID' = focus
        /\ filtered_relationships' = relationships
        /\ Render(relationships, focus, engine_ok)
    /\ UNCHANGED <<parseVars, relationships, filter_year>>

Init ==
    /\ file_contents = <<>>
    /\ lines = <<>>
    /\ idx = 0
    /\ seen_lines = {}
    /\ relationships \in Stores
    /\ FOCUS_ID = None
    /\ filter_year = None
    /\ filtered_relationships = NoDict
    /\ dot = NoDot
    /\ png_bytes = None
    /\ st_errors = <<>>
    /\ pipe_log = <<>>
    /\ pc = "parsed"

Next ==
    \/ FilterFamily
    \/ GenerateGraph
    \/ GenerateGraphUnfiltered

Spec == Init /\ [][Next]_vars

----------------------------------------------------------------------------
(* Properties of filter_family, get_mates and generate_graph, under Spec *)

Rel == relationships
Focused == Truthy(FOCUS_ID) /\ FOCUS_ID \in DOMAIN Rel
Mates == get_mates(Rel, FOCUS_ID)
ValidParents ==
    {p \in {Rel[FOCUS_ID].father_id, Rel[FOCUS_ID].mother_id} :
        p \in DOMAIN Rel /\ p # ZERO}
ChildrenOfFocusOrMates ==
    {i \in DOMAIN Rel : \/ Rel[i].father_id \in {FOCUS_ID} \cup Mates
                        \/ Rel[i].mother_id \in {FOCUS_ID} \cup Mates}
Selected == DOMAIN filtered_relationships

\* C3: with no year filter and a focal id F of the store, the filtered store
\* holds exactly F, F's parents present in the store and not "0", F's mates,
\* and every id whose father_id or mother_id is F or a mate of F.
C3_FilterClosure ==
    (pc = "filtered" /\ Focused /\ filter_year = None) =>
        Selected = {FOCUS_ID} \cup ValidParents \cup Mates
                       \cup ChildrenOfFocusOrMates

\* C3 witness: a filter without year that selected the focal id, a parent, a
\* mate and a child of that mate that is no child of the focal id, and left a
\* record of the store out.
C3_Witness ==
    /\ pc = "filtered" /\ Focused /\ FOCUS_ID # ZERO /\ filter_year = None
    /\ Selected # DOMAIN Rel
    /\ ValidParents \ ({FOCUS_ID} \cup Mates) # {}
    /\ \E m \in Mates \ {FOCUS_ID}, c \in Selected \ ({FOCUS_ID} \cup Mates) :
          /\ FOCUS_ID \notin {Rel[c].father_id, Rel[c].mother_id}
          /\ m \in {Rel[c].father_id, Rel[c].mother_id}

\* C4 (as claimed): under a year filter Y, a child of F or of a mate of F is
\* in the result if and only if its hatch_year equals Y, also when the child
\* is F itself, a parent of F or a mate of F.  (Stated for F other than "0",
\* so that no child is one through a parent field "0".)
C4_YearFilterExact ==
    (pc = "filtered" /\ Focused /\ FOCUS_ID # ZERO /\ filter_year # None) =>
        \A c \in ChildrenOfFocusOrMates :
            c \in Selected <=> Rel[c].hatch_year = filter_year

\* C4 (amended): under a year filter Y, a child of F or of a mate of F whose
\* hatch_year equals Y is in the result, and a child that is not F itself, a
\* parent of F present in the store and not "0", or a mate of F is in the
\* result only if its hatch_year equals Y.
C4_YearFilterExactForPlainChildren ==
    (pc = "filtered" /\ Focused /\ filter_year # None) =>
        \A c \in ChildrenOfFocusOrMates :
            /\ Rel[c].hatch_year = filter_year => c \in Selected
            /\ c \notin {FOCUS_ID} \cup ValidParents \cup Mates =>
                  (c \in Selected <=> Rel[c].hatch_year = filter_year)

\* C4 witness: a year filter kept one plain child and dropped another.
C4_Witness ==
    /\ pc = "filtered" /\ Focused /\ FOCUS_ID # ZERO /\ filter_year # None
    /\ \E c \in ChildrenOfFocusOrMates, d \in ChildrenOfFocusOrMates :
          /\ {c, d} \cap ({FOCUS_ID} \cup ValidParents \cup Mates) = {}
          /\ c \in Selected /\ Rel[c].hatch_year = filter_year
          /\ d \notin Selected /\ Rel[d].hatch_year # filter_year

\* C5 (as claimed): whenever a record has father_id A and mother_id B, B is a
\* mate of A and A is a mate of B.  (Stated for A and B other than "0".)
C5_MateSymmetry ==
    \A c \in DOMAIN Rel :
        (Rel[c].father_id # ZERO /\ Rel[c].mother_id # ZERO) =>
            /\ Rel[c].mother_id \in get_mates(Rel, Rel[c].father_id)
            /\ Rel[c].father_id \in get_mates(Rel, Rel[c].mother_id)

\* C5 (amended): whenever a record has father_id A and mother_id B, and A and
\* B are both ids of the store and neither is "0", B is a mate of A and A is
\* a mate of B.
C5_MateSymmetryOfPresentParents ==
    \A c \in DOMAIN Rel :
        LET a == Rel[c].father_id
            b == Rel[c].mother_id
        IN  (a \in DOMAIN Rel /\ b \in DOMAIN Rel /\ a # ZERO /\ b # ZERO) =>
                (b \in get_mates(Rel, a) /\ a \in get_mates(Rel, b))

\* C5 witness: the filter computed the mates of a focal father whose child
\* has a different mother that is in the store.
C5_Witness ==
    /\ pc = "filtered" /\ Focused /\ FOCUS_ID # ZERO
    /\ \E c \in DOMAIN Rel :
          /\ Rel[c].father_id = FOCUS_ID
          /\ Rel[c].mother_id \in DOMAIN Rel \ {ZERO, FOCUS_ID, c}
          /\ Rel[c].mother_id \in Mates
          /\ FOCUS_ID \in get_mates(Rel, Rel[c].mother_id)

\* C6 (as claimed): "0" is never a link target: every record the filter
\* selects is selected as F, as a parent or mate of F, or as a child through a
\* parent field that is not "0"; no mate of F is derived through a parent
\* field equal to "0"; and no edge drawn has "0" as its source.
C6_ZeroNeverLinks ==
    /\ (pc = "filtered" /\ Focused) =>
          /\ \A i \in Selected :
                \/ i \in {FOCUS_ID} \cup ValidParents \cup Mates
                \/ Rel[i].father_id \in ({FOCUS_ID} \cup Mates) \ {ZERO}
                \/ Rel[i].mother_id \in ({FOCUS_ID} \cup Mates) \ {ZERO}
          /\ \A m \in Mates :
                \E c \in DOMAIN Rel :
                    /\ {Rel[c].father_id, Rel[c].mother_id} = {FOCUS_ID, m}
                    /\ ZERO \notin {Rel[c].father_id, Rel[c].mother_id}
    /\ (pc = "rendered" /\ dot.created) =>
          \A e \in BagToSet(dot.edges) : e.tail # ZERO

\* C7: on an empty store generate_graph returns None without calling the
\* layout engine; on a non-empty store it never raises, and when the engine
\* fails it reports one error and returns None.
C7_RenderingTotality ==
    /\ pc # "render_raised"
    /\ pc = "rendered" =>
          IF DOMAIN filtered_relationships = {}
          THEN png_bytes = None /\ pipe_log = <<>> /\ st_errors = <<>>
          ELSE \/ pipe_log = <<"ok">> /\ png_bytes = PNG /\ st_errors = <<>>
               \/ pipe_log = <<"failed">> /\ png_bytes = None
                      /\ Len(st_errors) = 1

\* C7 witness: the layout engine failed on a non-empty store.
C7_Witness ==
    /\ pc = "rendered"
    /\ Cardinality(DOMAIN filtered_relationships) > 1
    /\ pipe_log = <<"failed">>
    /\ png_bytes = None

\* C8: filter_family selects: every id of the result is an id of the input
\* mapped to the input's record, and the call leaves the input store as it was.
C8_PureSelection ==
    [][(pc = "parsed" /\ pc' = "filtered") =>
          /\ relationships' = relationships
          /\ \A k \in DOMAIN filtered_relationships' :
                /\ k \in DOMAIN relationships
                /\ filtered_relationships'[k] = relationships[k]]_vars

\* C8 witness: a filter selected the focal id and a parent with a different
\* record, and left a record of the store out.
C8_Witness ==
    /\ pc = "filtered" /\ Focused /\ FOCUS_ID # ZERO
    /\ Selected # DOMAIN Rel
    /\ \E p \in ValidParents : p # FOCUS_ID /\ Rel[p] # Rel[FOCUS_ID]

\* C9 (as claimed): when the store filtered for a focal id F of the store is
\* rendered with focus F, every record of the filtered store is drawn as a
\* node, and every mate of F is created on the rank of F.  (Stated for F
\* other than "0".)
C9_FilteredAllDrawn ==
    (/\ pc = "rendered" /\ Focused /\ FOCUS_ID # ZERO
     /\ filtered_relationships = filter_family(Rel, FOCUS_ID, filter_year)) =>
        /\ Selected \subseteq DOMAIN dot.nodes
        /\ Mates \subseteq dot.subgraphs[Len(dot.subgraphs)].calls

\* C10 (as claimed): generate_graph emits each (parent, child) edge at most
\* once, and both ends of every edge are drawn nodes.  (Stated for the edges
\* whose parent is not "0".)
C10_NoDuplicateEdges ==
    (pc = "rendered" /\ dot.created) =>
        \A e \in {x \in BagToSet(dot.edges) : x.tail # ZERO} :
            /\ CopiesIn(e, dot.edges) = 1
            /\ e.tail \in DOMAIN dot.nodes
            /\ e.head \in DOMAIN dot.nodes

====
